---- MODULE Spec2Model ----
(***************************************************************************)
(* Minimum-context retrieval and refusal-decision pipeline of the book     *)
(* question-answering backend (backend/src/rag), up to its /query endpoint.*)
(*                                                                         *)
(* Text is a sequence of one-character strings.  The alphabet keeps the    *)
(* letters of the texts, some upper-case (so that case folding is          *)
(* observable), two whitespace characters and the sentence terminators.    *)
(* None and the empty string are both falsy in Python and the code only    *)
(* ever tests selected_text for truth, so both are the empty sequence.     *)
(***************************************************************************)
EXTENDS Integers, Sequences, FiniteSets, TLC

VARIABLES
    pc,               \* control point of the running entry point
    op,               \* entry point that was invoked (get_answer_with_retrieval while
                      \* the /query endpoint awaits it)
    args,             \* its arguments
    ret,              \* value returned by the entry point (NoValue until it returns)
    raised,           \* exception that left the entry point ("None" if none)
    result,           \* the retriever's result dictionary under construction
    remaining_tokens, \* local of the retrieval loops
    search_results,   \* rows fetched from the corpus store (their chunk_ids)
    idx,              \* position of the for-loop over search_results
    executes,         \* outcome of each cursor.execute call issued, in order
    conns,            \* connection field of the two retriever objects
    model_calls,      \* what each client.messages.create call was sent, in order
    grounding_calls,  \* what each call of a HallucinationPrevention method was given
    request,          \* the QueryRequest the /query endpoint is serving (NoValue if none)
    http              \* what the endpoint answered the request with (NoValue until then)

vars == <<pc, op, args, ret, raised, result, remaining_tokens, search_results,
          idx, executes, conns, model_calls, grounding_calls, request, http>>

----------------------------------------------------------------------------
(* Bounds of the model *)

\* longest context handed to should_refuse_answer
MaxCtxLen == 3
\* longest query handed to should_refuse_answer
MaxQueryLen == 2
\* largest small min_context_length tried beside the default
MaxMinLen == 2
\* longest text handed to _find_relevant_sentences directly
MaxTextLen == 4
\* largest max_sentences tried
MaxSentences == 2
\* largest max_tokens / min_tokens handed to retrieve_minimum_context
MaxTokens == 3
\* most rows a modelled search returns
MaxResults == 2

----------------------------------------------------------------------------
(* Python string primitives *)

Min(a, b) == IF a <= b THEN a ELSE b

\* the whitespace characters of the alphabet
Whitespace == {" ", "\n"}

\* the character class [.!?]
Terminators == {".", "!", "?"}

IsSpace(c) == c \in Whitespace

\* the upper-case letters, each with its lower-case letter
Letters ==
    { <<"A", "a">>, <<"B", "b">>, <<"C", "c">>, <<"D", "d">>, <<"E", "e">>, <<"F", "f">>, <<"G", "g">>,
      <<"H", "h">>, <<"I", "i">>, <<"J", "j">>, <<"K", "k">>, <<"L", "l">>, <<"M", "m">>, <<"N", "n">>,
      <<"O", "o">>, <<"P", "p">>, <<"Q", "q">>, <<"R", "r">>, <<"S", "s">>, <<"T", "t">>, <<"U", "u">>,
      <<"V", "v">>, <<"W", "w">>, <<"X", "x">>, <<"Y", "y">>, <<"Z", "z">> }

UpperCase == {l[1] : l \in Letters}

ToLower == [c \in UpperCase |-> (CHOOSE l \in Letters : l[1] = c)[2]]

LowerChar(c) == IF c \in UpperCase THEN ToLower[c] ELSE c

\* str.lower()
lower(s) == [i \in 1..Len(s) |-> LowerChar(s[i])]

\* str.strip()
strip(s) ==
    LET kept == SelectSeq([i \in 1..Len(s) |-> i], LAMBDA i : ~IsSpace(s[i]))
    IN  IF kept = <<>> THEN <<>> ELSE SubSeq(s, kept[1], kept[Len(kept)])

\* the maximal runs of characters of s that are not separators, in text order
Runs(s, separators) ==
    LET n == Len(s)
        positions == [i \in 1..n |-> i]
        first == SelectSeq(positions,
                           LAMBDA i : /\ s[i] \notin separators
                                      /\ (i = 1 \/ s[i - 1] \in separators))
        last == SelectSeq(positions,
                          LAMBDA i : /\ s[i] \notin separators
                                     /\ (i = n \/ s[i + 1] \in separators))
    IN  [k \in 1..Len(first) |-> SubSeq(s, first[k], last[k])]

\* str.split() with no argument: the maximal runs of non-whitespace
split(s) == Runs(s, Whitespace)

\* set(seq)
ToSet(seq) == {seq[i] : i \in 1..Len(seq)}

\* needle in hay
Contains(hay, needle) ==
    \E i \in 0..(Len(hay) - Len(needle)) : SubSeq(hay, i + 1, i + Len(needle)) = needle

RECURSIVE JoinFrom(_, _, _)
JoinFrom(parts, sep, i) ==
    IF i > Len(parts) THEN <<>>
    ELSE IF i = Len(parts) THEN parts[i]
    ELSE parts[i] \o sep \o JoinFrom(parts, sep, i + 1)

\* sep.join(parts)
Join(parts, sep) == JoinFrom(parts, sep, 1)

\* re.split(r'[.!?]+', text) without its empty pieces (a text that starts or ends
\* with a terminator yields an empty piece there, which the caller's filter drops)
ReSplitSentences(text) == Runs(text, Terminators)

----------------------------------------------------------------------------
(* MinimumTextRetriever: token count and sentence relevance scorer *)

\* mutant: the count of characters instead of the count of words
_calculate_token_count_Chars(text) == Len(text)

_calculate_token_count(text) == Len(split(text))

\* sentences = [s.strip() for s in re.split(...) if s.strip()]
Sentences(text) ==
    LET pieces == ReSplitSentences(text)
        stripped == [i \in 1..Len(pieces) |-> strip(pieces[i])]
    IN  SelectSeq(stripped, LAMBDA p : p # <<>>)

\* the inner loop: one point per query term found in the lower-cased sentence
SentenceScore(sentence, query) ==
    LET query_terms == split(lower(query))
        sentence_lower == lower(sentence)
    IN  Cardinality({j \in 1..Len(query_terms) : Contains(sentence_lower, query_terms[j])})

\* mutant: the sentences left in text order
SortByScoreDesc_TextOrder(sentences, query) == sentences

\* list.sort(key=score, reverse=True): stable, so ties keep their text order
SortByScoreDesc(sentences, query) ==
    LET n == Len(sentences)
        sc == [i \in 1..n |-> SentenceScore(sentences[i], query)]
        pos(i) == 1 + Cardinality({j \in 1..n : sc[j] > sc[i]})
                    + Cardinality({j \in 1..(i - 1) : sc[j] = sc[i]})
    IN  [p \in 1..n |-> sentences[CHOOSE i \in 1..n : pos(i) = p]]

\* top_sentences = [s[0] for s in scored_sentences[:max_sentences] if s[1] > 0]
TopSentences(text, query, max_sentences) ==
    LET sorted == SortByScoreDesc(Sentences(text), query)
        head == SubSeq(sorted, 1, Min(max_sentences, Len(sorted)))
    IN  SelectSeq(head, LAMBDA s : SentenceScore(s, query) > 0)

JoinWithPeriod(top_sentences) == Join(top_sentences, <<".", " ">>) \o <<".">>

_find_relevant_sentences(text, query, max_sentences) ==
    JoinWithPeriod(TopSentences(text, query, max_sentences))

----------------------------------------------------------------------------
(* RefusalHandler: the refusal catalog and the sufficiency / relevance gate *)

\* RefusalType values, in the insertion order of refusal_messages
RefusalKeys ==
    << "insufficient_context", "no_relevant_content", "selected_text_only_insufficient",
       "context_too_brief", "no_context_provided", "hallucination_prevention" >>

RefusalType == ToSet(RefusalKeys)

refusal_messages ==
    [t \in RefusalType |->
        CASE t = "insufficient_context" ->
               "I cannot answer this question based on the provided book content. "
               \o "The retrieved information does not contain sufficient details to provide an accurate response. "
               \o "Please refer to the relevant sections of the book for the information you need."
          [] t = "no_relevant_content" ->
               "I cannot answer this question based on the provided book content. "
               \o "The retrieved information does not appear to contain relevant information for your query. "
               \o "Please check the book sections that might contain this information."
          [] t = "selected_text_only_insufficient" ->
               "I cannot answer this question based only on the selected text. "
               \o "The selected portion does not contain sufficient information to address your query. "
               \o "Please select a broader text segment or refer to other relevant sections of the book."
          [] t = "context_too_brief" ->
               "I cannot provide an accurate answer based on the provided context, as it is too brief to contain the necessary information. "
               \o "Please provide more context from the book or refer to the relevant sections directly."
          [] t = "no_context_provided" ->
               "I cannot answer this question without context from the book. "
               \o "No relevant book content was provided to answer your query. "
               \o "Please ensure you have selected text or that the book content is properly indexed."
          [] t = "hallucination_prevention" ->
               "I cannot answer this question as it requires information not available in the provided book content. "
               \o "I am designed to answer only from the specific book content provided. "
               \o "Please consult the book directly for this information."]

\* custom_context "" stands for None (both falsy)
get_refusal_message(refusal_type, custom_context) ==
    LET base_message == IF refusal_type \in DOMAIN refusal_messages
                        THEN refusal_messages[refusal_type]
                        ELSE refusal_messages["insufficient_context"]
    IN  IF custom_context # "" THEN base_message \o " " \o custom_context
        ELSE base_message

\* default of min_context_length and of min_required_length
DefaultMinContextLength == 50

generate_context_insufficient_refusal(context_length, min_required_length) ==
    LET refusal_type == IF context_length = 0 THEN "no_context_provided"
                        ELSE IF context_length < min_required_length THEN "context_too_brief"
                        ELSE "insufficient_context"
    IN  [refusal_type |-> refusal_type,
         message |-> get_refusal_message(refusal_type, ""),
         should_refuse |-> TRUE]

\* mutant: the relevance refusal built with the type of the generic refusal
generate_no_relevant_content_refusal_Generic(query) ==
    [refusal_type |-> "insufficient_context",
     message |-> get_refusal_message("no_relevant_content", ""),
     query |-> query,
     should_refuse |-> TRUE]

generate_no_relevant_content_refusal(query) ==
    [refusal_type |-> "no_relevant_content",
     message |-> get_refusal_message("no_relevant_content", ""),
     query |-> query,
     should_refuse |-> TRUE]

\* mutant: the first check without the strip
ContextIsEmpty_NoStrip(context) == context = <<>>

\* the first check of the gate: not context or len(context.strip()) == 0
ContextIsEmpty(context) == context = <<>> \/ Len(strip(context)) = 0

\* the second check: context_length < min_context_length
ContextTooBrief(context, min_context_length) == Len(strip(context)) < min_context_length

\* mutant: the word sets compared without lower-casing
NoCommonWords_CaseSensitive(context, query) ==
    LET query_words == ToSet(split(query))
        context_words == ToSet(split(context))
        common_words == query_words \cap context_words
    IN  Cardinality(common_words) = 0 /\ Cardinality(query_words) > 0

\* the third check: no common word and the query has a word
NoCommonWords(context, query) ==
    LET query_words == ToSet(split(lower(query)))
        context_words == ToSet(split(lower(context)))
        common_words == query_words \cap context_words
    IN  Cardinality(common_words) = 0 /\ Cardinality(query_words) > 0

\* mutant: the relevance check moved in front of the length check
should_refuse_answer_RelevanceFirst(context, query, min_context_length) ==
    IF ContextIsEmpty(context)
    THEN LET refusal == generate_context_insufficient_refusal(0, DefaultMinContextLength)
         IN  [should_refuse |-> TRUE, refusal_type |-> refusal.refusal_type,
              message |-> refusal.message, reason |-> "no_context"]
    ELSE IF NoCommonWords(context, query)
    THEN LET refusal == generate_no_relevant_content_refusal(query)
         IN  [should_refuse |-> TRUE, refusal_type |-> refusal.refusal_type,
              message |-> refusal.message, reason |-> "no_relevance"]
    ELSE IF ContextTooBrief(context, min_context_length)
    THEN LET refusal == generate_context_insufficient_refusal(Len(strip(context)),
                                                              min_context_length)
         IN  [should_refuse |-> TRUE, refusal_type |-> refusal.refusal_type,
              message |-> refusal.message, reason |-> "context_too_brief"]
    ELSE [should_refuse |-> FALSE, refusal_type |-> "None",
          message |-> "None", reason |-> "None"]

should_refuse_answer(context, query, min_context_length) ==
    IF ContextIsEmpty(context)
    THEN LET refusal == generate_context_insufficient_refusal(0, DefaultMinContextLength)
         IN  [should_refuse |-> TRUE, refusal_type |-> refusal.refusal_type,
              message |-> refusal.message, reason |-> "no_context"]
    ELSE IF ContextTooBrief(context, min_context_length)
    THEN LET refusal == generate_context_insufficient_refusal(Len(strip(context)),
                                                              min_context_length)
         IN  [should_refuse |-> TRUE, refusal_type |-> refusal.refusal_type,
              message |-> refusal.message, reason |-> "context_too_brief"]
    ELSE IF NoCommonWords(context, query)
    THEN LET refusal == generate_no_relevant_content_refusal(query)
         IN  [should_refuse |-> TRUE, refusal_type |-> refusal.refusal_type,
              message |-> refusal.message, reason |-> "no_relevance"]
    ELSE [should_refuse |-> FALSE, refusal_type |-> "None",
          message |-> "None", reason |-> "None"]

----------------------------------------------------------------------------
(* Inputs: texts, queries and the corpus store *)

RECURSIVE SeqsUpTo(_, _)
\* every sequence over chars of length at most n
SeqsUpTo(chars, n) ==
    IF n = 0 THEN {<<>>}
    ELSE LET shorter == SeqsUpTo(chars, n - 1)
         IN  shorter \cup {Append(t, c) : t \in {u \in shorter : Len(u) = n - 1}, c \in chars}

\* n copies of word, separated by single spaces
Repeat(word, n) ==
    [i \in 1..(n * (Len(word) + 1) - 1) |->
        LET r == (i - 1) % (Len(word) + 1)
        IN  IF r = Len(word) THEN " " ELSE word[r + 1]]

\* one letter in both cases, so that two words can differ in case only
GateChars == {"b", "B", " "}
\* every short text, and three texts of whitespace only
GateContexts ==
    SeqsUpTo(GateChars, MaxCtxLen) \cup {<<"\n">>, <<" ", "\n">>, <<"\n", "\n", " ">>}
GateQueries == SeqsUpTo(GateChars, MaxQueryLen)
GateMinLengths == (0..MaxMinLen) \cup {DefaultMinContextLength}

ScorerChars == {"a", "B", " ", "."}
ScorerTexts == SeqsUpTo(ScorerChars, MaxTextLen)
Queries == {<<>>, <<"a">>, <<"B">>, <<"a", " ", "B">>}

\* word counts from 0 to one above the largest budget; " " is a non-empty excerpt
\* without a word
SelectedTexts ==
    {<<>>, <<" ">>, <<"B">>} \cup {Repeat(<<"a">>, n) : n \in 1..(MaxTokens + 1)}

\* rows of book_chunks: two short chunks of the same chapter and section, a chunk
\* without the letter a, and two chunks of one hundred-word sentence each
Corpus ==
    { [chunk_id |-> 1, chapter |-> "1", section |-> "1", title |-> "Intro",
       content |-> <<"a", ".", " ", "B">>],
      [chunk_id |-> 2, chapter |-> "1", section |-> "1", title |-> "Setup",
       content |-> <<"a", " ", "B", ".", " ", "a">>],
      [chunk_id |-> 3, chapter |-> "2", section |-> "1", title |-> "Intro",
       content |-> <<"B">>],
      [chunk_id |-> 4, chapter |-> "2", section |-> "2", title |-> "Nodes",
       content |-> Repeat(<<"a">>, 100) \o <<".">>],
      [chunk_id |-> 5, chapter |-> "3", section |-> "1", title |-> "Topics",
       content |-> Repeat(<<"a", "B">>, 100) \o <<".">>] }

ChunkIds == {c.chunk_id : c \in Corpus}

\* the row of book_chunks with the given chunk_id
Chunk(id) == CHOOSE c \in Corpus : c.chunk_id = id

RECURSIVE RowSeqs(_)
\* the sequences of at most n distinct rows, each row named by its chunk_id
RowSeqs(n) ==
    IF n = 0 THEN {<<>>}
    ELSE LET shorter == RowSeqs(n - 1)
         IN  shorter \cup UNION {{Append(t, c) : c \in ChunkIds \ ToSet(t)} :
                                    t \in {u \in shorter : Len(u) = n - 1}}

\* what cursor.fetchall() can return for the full-text query: rows in any rank
\* order; plainto_tsquery of a query without a word matches no row
FetchAll(query) == IF split(query) = <<>> THEN {<<>>} ELSE RowSeqs(MaxResults)

----------------------------------------------------------------------------
(* State *)

NoValue == [none |-> TRUE]

NoArgs ==
    [query |-> <<>>, selected_text |-> <<>>, max_tokens |-> 0, min_tokens |-> 0,
     text |-> <<>>, context |-> <<>>, max_sentences |-> 0, min_context_length |-> 0,
     mode |-> "None", is_demo_mode |-> FALSE, db_url |-> TRUE, response |-> <<>>]

EmptyResult ==
    [context |-> <<>>, sources |-> <<>>, token_count |-> 0,
     selected_text_used |-> FALSE, query |-> <<>>, is_sufficient |-> FALSE]

Init ==
    /\ pc = "idle"
    /\ op = "None"
    /\ args = NoArgs
    /\ ret = NoValue
    /\ raised = "None"
    /\ result = EmptyResult
    /\ remaining_tokens = 0
    /\ search_results = <<>>
    /\ idx = 0
    /\ executes = <<>>
    /\ conns = [retriever |-> "None", min_text_retriever |-> "None"]
    /\ model_calls = <<>>
    /\ grounding_calls = <<>>
    /\ request = NoValue
    /\ http = NoValue

retrieval_vars == <<result, remaining_tokens, search_results, idx, executes>>

endpoint_vars == <<request, http>>

----------------------------------------------------------------------------
(* Entry points that are pure functions *)

Call_find_relevant_sentences ==
    /\ pc = "idle"
    /\ \E text \in ScorerTexts, query \in Queries, max_sentences \in 1..MaxSentences :
          /\ args' = [NoArgs EXCEPT !.text = text, !.query = query,
                                    !.max_sentences = max_sentences]
          /\ ret' = [text |-> _find_relevant_sentences(text, query, max_sentences)]
    /\ op' = "_find_relevant_sentences"
    /\ pc' = "done"
    /\ UNCHANGED <<raised, retrieval_vars, conns, model_calls>>
    /\ UNCHANGED <<grounding_calls, endpoint_vars>>

Call_should_refuse_answer ==
    /\ pc = "idle"
    /\ \E context \in GateContexts, query \in GateQueries,
          min_context_length \in GateMinLengths :
          /\ args' = [NoArgs EXCEPT !.context = context, !.query = query,
                                    !.min_context_length = min_context_length]
          /\ ret' = should_refuse_answer(context, query, min_context_length)
    /\ op' = "should_refuse_answer"
    /\ pc' = "done"
    /\ UNCHANGED <<raised, retrieval_vars, conns, model_calls>>
    /\ UNCHANGED <<grounding_calls, endpoint_vars>>

----------------------------------------------------------------------------
(* MinimumTextRetriever: context assembly *)

\* default of max_tokens
DefaultMaxTokens == 1500
\* sufficiency threshold hard-coded in retrieve_for_book_scope
BookScopeMinTokens == 100
\* sufficiency threshold hard-coded in retrieve_for_selected_text_only
SelectedTextMinTokens == 50
\* max_sentences passed by retrieve_minimum_context
MinimumContextSentences == 3
\* max_sentences passed by retrieve_for_book_scope
BookScopeSentences == 2

UserSelectedLabel == "User Selected Text"

InitialResult(query, selected_text) ==
    [context |-> <<>>, sources |-> <<>>, token_count |-> 0,
     selected_text_used |-> selected_text # <<>>, query |-> query,
     is_sufficient |-> FALSE]

\* mutant: sufficiency of the excerpt tested with > instead of >=
UseSelectedText_StrictlyMore(r, selected_text, min_tokens) ==
    IF selected_text # <<>>
    THEN [r EXCEPT !.context = selected_text,
                   !.token_count = _calculate_token_count(selected_text),
                   !.sources = Append(@, UserSelectedLabel),
                   !.is_sufficient = _calculate_token_count(selected_text) > min_tokens]
    ELSE r

\* the body of "if selected_text:" up to the early return
UseSelectedText(r, selected_text, min_tokens) ==
    IF selected_text # <<>>
    THEN [r EXCEPT !.context = selected_text,
                   !.token_count = _calculate_token_count(selected_text),
                   !.sources = Append(@, UserSelectedLabel),
                   !.is_sufficient = _calculate_token_count(selected_text) >= min_tokens]
    ELSE r

\* the early return: the selected text alone is the context
ReturnsSelectedText(r, selected_text, max_tokens) ==
    selected_text # <<>> /\ r.token_count <= max_tokens /\ r.is_sufficient

\* "if result['token_count'] < max_tokens:" guards the corpus search
SearchesCorpus(r, max_tokens) == r.token_count < max_tokens

SourceRef(chunk) == chunk.chapter \o "/" \o chunk.section \o " - " \o chunk.title

\* "if not relevant_excerpt.strip(): continue"
SkipsExcerpt(relevant_excerpt) == strip(relevant_excerpt) = <<>>

\* mutant: every excerpt is taken, whatever the remaining budget
ExcerptFits_Always(excerpt_token_count, remaining) == TRUE

\* "if excerpt_token_count <= remaining_tokens:"
ExcerptFits(excerpt_token_count, remaining) == excerpt_token_count <= remaining

\* mutant: the corpus excerpt is put in front of the context instead of after it
AddExcerpt_Prepend(r, chunk, relevant_excerpt, remaining) ==
    LET excerpt_token_count == _calculate_token_count(relevant_excerpt)
    IN  IF SkipsExcerpt(relevant_excerpt) THEN r
        ELSE IF ExcerptFits(excerpt_token_count, remaining)
        THEN [r EXCEPT !.context = IF @ # <<>> THEN relevant_excerpt \o <<"\n", "\n">> \o @
                                   ELSE relevant_excerpt,
                       !.token_count = @ + excerpt_token_count,
                       !.sources = IF \E i \in 1..Len(@) : @[i] = SourceRef(chunk)
                                   THEN @ ELSE Append(@, SourceRef(chunk))]
        ELSE r

\* one pass through the body of "for chunk in search_results", after the break test
AddExcerpt(r, chunk, relevant_excerpt, remaining) ==
    LET excerpt_token_count == _calculate_token_count(relevant_excerpt)
    IN  IF SkipsExcerpt(relevant_excerpt) THEN r
        ELSE IF ExcerptFits(excerpt_token_count, remaining)
        THEN [r EXCEPT !.context = IF @ # <<>> THEN @ \o <<"\n", "\n">> \o relevant_excerpt
                                   ELSE relevant_excerpt,
                       !.token_count = @ + excerpt_token_count,
                       !.sources = IF \E i \in 1..Len(@) : @[i] = SourceRef(chunk)
                                   THEN @ ELSE Append(@, SourceRef(chunk))]
        ELSE r

RemainingAfter(relevant_excerpt, remaining) ==
    LET excerpt_token_count == _calculate_token_count(relevant_excerpt)
    IN  IF ~SkipsExcerpt(relevant_excerpt) /\ ExcerptFits(excerpt_token_count, remaining)
        THEN remaining - excerpt_token_count
        ELSE remaining

retrieve_for_selected_text_only(selected_text, query) ==
    [context |-> selected_text, sources |-> <<UserSelectedLabel>>,
     token_count |-> _calculate_token_count(selected_text),
     selected_text_used |-> TRUE, query |-> query,
     is_sufficient |-> _calculate_token_count(selected_text) >= SelectedTextMinTokens]

PipelineOp == "get_answer_with_retrieval"

\* the retrieval function whose loop is running
CurrentFn == IF op = PipelineOp THEN "retrieve_for_book_scope" ELSE op

LoopSentences ==
    IF CurrentFn = "retrieve_for_book_scope" THEN BookScopeSentences
    ELSE MinimumContextSentences

LoopMinTokens ==
    IF CurrentFn = "retrieve_for_book_scope" THEN BookScopeMinTokens ELSE args.min_tokens

\* mutant: the finally clause closes nothing
Closed_Leak(c) == c

Closed(c) == [r \in DOMAIN c |-> IF c[r] = "open" THEN "closed" ELSE c[r]]

\* an exception leaves the entry point; get_answer_with_retrieval's finally clause
\* closes the connections that were opened on the way out
Unwind(entry, exc, c) ==
    /\ raised' = exc
    /\ pc' = "done"
    /\ conns' = IF entry = PipelineOp THEN Closed(c) ELSE c
    /\ UNCHANGED ret

\* a retrieval function returns r: to its caller in the pipeline, or to the user
ReturnResult(entry, r) ==
    /\ result' = r
    /\ IF entry = PipelineOp
       THEN pc' = "check_sufficient" /\ UNCHANGED ret
       ELSE pc' = "done" /\ ret' = r

Call_retrieve_minimum_context ==
    /\ pc = "idle"
    /\ op' = "retrieve_minimum_context"
    /\ \E query \in Queries, selected_text \in SelectedTexts,
          max_tokens \in 0..MaxTokens, min_tokens \in 0..MaxTokens, connected \in BOOLEAN :
          /\ args' = [NoArgs EXCEPT !.query = query, !.selected_text = selected_text,
                                    !.max_tokens = max_tokens, !.min_tokens = min_tokens]
          /\ IF ~connected
             THEN /\ Unwind("retrieve", "OperationalError", conns)
                  /\ UNCHANGED <<result, remaining_tokens>>
             ELSE LET r == UseSelectedText(InitialResult(query, selected_text),
                                           selected_text, min_tokens)
                  IN  /\ conns' = [conns EXCEPT !.min_text_retriever = "open"]
                      /\ raised' = raised
                      /\ IF ReturnsSelectedText(r, selected_text, max_tokens)
                         THEN ReturnResult("retrieve", r) /\ UNCHANGED remaining_tokens
                         ELSE IF SearchesCorpus(r, max_tokens)
                         THEN /\ result' = r
                              /\ remaining_tokens' = max_tokens - r.token_count
                              /\ pc' = "execute"
                              /\ UNCHANGED ret
                         ELSE ReturnResult("retrieve", r) /\ UNCHANGED remaining_tokens
    /\ UNCHANGED <<search_results, idx, executes, model_calls>>
    /\ UNCHANGED <<grounding_calls, endpoint_vars>>

Call_retrieve_for_book_scope ==
    /\ pc = "idle"
    /\ op' = "retrieve_for_book_scope"
    /\ \E query \in Queries, max_tokens \in (0..MaxTokens) \cup {DefaultMaxTokens},
          connected \in BOOLEAN :
          /\ args' = [NoArgs EXCEPT !.query = query, !.max_tokens = max_tokens]
          /\ IF ~connected
             THEN Unwind("retrieve", "OperationalError", conns) /\ UNCHANGED result
             ELSE /\ conns' = [conns EXCEPT !.min_text_retriever = "open"]
                  /\ result' = InitialResult(query, <<>>)
                  /\ pc' = "execute"
                  /\ UNCHANGED <<ret, raised>>
    /\ UNCHANGED <<remaining_tokens, search_results, idx, executes, model_calls>>
    /\ UNCHANGED <<grounding_calls, endpoint_vars>>

Call_retrieve_for_selected_text_only ==
    /\ pc = "idle"
    /\ op' = "retrieve_for_selected_text_only"
    /\ \E query \in Queries, selected_text \in SelectedTexts :
          /\ args' = [NoArgs EXCEPT !.query = query, !.selected_text = selected_text]
          /\ ReturnResult("retrieve", retrieve_for_selected_text_only(selected_text, query))
    /\ UNCHANGED <<raised, remaining_tokens, search_results, idx, executes, conns,
                   model_calls>>
    /\ UNCHANGED <<grounding_calls, endpoint_vars>>

\* mutant: a failed query is swallowed and treated as a search without rows
Execute_SwallowError ==
    /\ pc = "execute"
    /\ \/ /\ \E rows \in FetchAll(args.query) : search_results' = rows
          /\ executes' = Append(executes, "ok")
       \/ /\ search_results' = <<>>
          /\ executes' = Append(executes, "error")
    /\ idx' = 1
    /\ remaining_tokens' = IF CurrentFn = "retrieve_for_book_scope"
                           THEN args.max_tokens ELSE remaining_tokens
    /\ pc' = "loop"
    /\ UNCHANGED <<op, args, ret, raised, result, conns, model_calls>>
    /\ UNCHANGED <<grounding_calls, endpoint_vars>>

\* cursor.execute(...) and cursor.fetchall(): the one blocking call of a retrieval
Execute ==
    /\ pc = "execute"
    /\ \/ /\ \E rows \in FetchAll(args.query) : search_results' = rows
          /\ executes' = Append(executes, "ok")
          /\ idx' = 1
          /\ remaining_tokens' = IF CurrentFn = "retrieve_for_book_scope"
                                 THEN args.max_tokens ELSE remaining_tokens
          /\ pc' = "loop"
          /\ UNCHANGED <<ret, raised, conns>>
       \/ /\ executes' = Append(executes, "error")
          /\ Unwind(op, "DatabaseError", conns)
          /\ UNCHANGED <<search_results, idx, remaining_tokens>>
    /\ UNCHANGED <<op, args, result, model_calls>>
    /\ UNCHANGED <<grounding_calls, endpoint_vars>>

\* "if remaining_tokens <= 0: break", or the rows are exhausted
LoopEnds == idx > Len(search_results) \/ remaining_tokens <= 0

\* mutant: the search is issued again for every row processed
LoopBody_Requery ==
    /\ pc = "loop"
    /\ ~LoopEnds
    /\ LET chunk == Chunk(search_results[idx])
           relevant_excerpt == _find_relevant_sentences(chunk.content, args.query,
                                                        LoopSentences)
       IN  /\ result' = AddExcerpt(result, chunk, relevant_excerpt, remaining_tokens)
           /\ remaining_tokens' = RemainingAfter(relevant_excerpt, remaining_tokens)
    /\ idx' = idx + 1
    /\ executes' = Append(executes, "ok")
    /\ UNCHANGED <<pc, op, args, ret, raised, search_results, conns, model_calls>>
    /\ UNCHANGED <<grounding_calls, endpoint_vars>>

LoopBody ==
    /\ pc = "loop"
    /\ ~LoopEnds
    /\ LET chunk == Chunk(search_results[idx])
           relevant_excerpt == _find_relevant_sentences(chunk.content, args.query,
                                                        LoopSentences)
       IN  /\ result' = AddExcerpt(result, chunk, relevant_excerpt, remaining_tokens)
           /\ remaining_tokens' = RemainingAfter(relevant_excerpt, remaining_tokens)
    /\ idx' = idx + 1
    /\ UNCHANGED <<pc, op, args, ret, raised, search_results, executes, conns, model_calls>>
    /\ UNCHANGED <<grounding_calls, endpoint_vars>>

\* after the loop: "result['is_sufficient'] = ..." and "return result"
LoopExit ==
    /\ pc = "loop"
    /\ LoopEnds
    /\ ReturnResult(op, [result EXCEPT !.is_sufficient = result.token_count >= LoopMinTokens])
    /\ UNCHANGED <<op, args, raised, remaining_tokens, search_results, idx, executes,
                   conns, model_calls>>
    /\ UNCHANGED <<grounding_calls, endpoint_vars>>

----------------------------------------------------------------------------
(* ClaudeRAGClient: validation, the model call and the query pipeline *)

QueryMode == {"book_scope", "selected_text_only"}

\* max_context_length of validate_context_before_send
MaxContextLength == 100000

validate_context_before_send(context, original_query) ==
    IF context = <<>> \/ Len(strip(context)) = 0
    THEN [is_valid |-> FALSE,
          issues |-> <<"Context is empty or contains only whitespace">>,
          filtered_context |-> context]
    ELSE LET too_long == Len(context) > MaxContextLength
             unrelated ==
                 /\ original_query # <<>>
                 /\ LET query_words == ToSet(split(lower(original_query)))
                        context_words == ToSet(split(lower(context)))
                    IN  /\ Cardinality(query_words \cap context_words) = 0
                        /\ Cardinality(query_words) > 0
         IN  [is_valid |-> TRUE,
              issues |-> (IF too_long THEN <<"Context was too long and was truncated">>
                          ELSE <<>>)
                         \o (IF unrelated THEN <<"Context appears unrelated to query">>
                             ELSE <<>>),
              filtered_context |-> IF too_long THEN SubSeq(context, 1, MaxContextLength)
                                   ELSE context]

\* refusal_messages.keys()[0]: a dict_keys view is not subscriptable
KeysSubscript(i) == [ok |-> FALSE, exc |-> "TypeError", value |-> "None"]

\* list(refusal_messages.keys())[0]
ListKeysSubscript(i) == [ok |-> TRUE, exc |-> "None", value |-> RefusalKeys[i + 1]]

\* a catalog message as the text of an answer: one opaque symbol
MessageText(message) == <<message>>

CannedAnswers == {MessageText(refusal_messages[t]) : t \in RefusalType}

\* the dictionary get_answer_from_claude returns for a context it does not send
InvalidContextResponse(validation) ==
    [success |-> FALSE,
     answer |-> MessageText(get_refusal_message(ListKeysSubscript(0).value, "")),
     reason |-> "invalid_context",
     validation_issues |-> validation.issues]

\* the dictionary its except clause returns when the API call raises
ApiErrorResponse(error) ==
    [success |-> FALSE,
     answer |-> MessageText(get_refusal_message(ListKeysSubscript(0).value, "")),
     error |-> error]

ApiSuccessResponse(answer) ==
    [success |-> TRUE, answer |-> answer,
     usage |-> [input_tokens |-> 1, output_tokens |-> Len(split(answer))]]

DemoAnswer(query) ==
    <<"This is a demo response for your query: '">> \o query \o <<"'. In production mode, the system would retrieve relevant content from the database and generate an answer using Claude AI.">>

DemoResponse(query) ==
    [success |-> TRUE, answer |-> DemoAnswer(query), sources |-> <<"Demo Mode">>,
     context_used |-> TRUE,
     usage |-> [input_tokens |-> Len(split(DemoAnswer(query))),
                output_tokens |-> Len(split(DemoAnswer(query)))]]

\* texts the hosted model may answer with
ModelAnswers == {<<>>, <<"a", ".">>}

PipelineSelectedTexts ==
    {<<>>, Repeat(<<"a">>, 2), Repeat(<<"a">>, SelectedTextMinTokens),
     Repeat(<<"B">>, SelectedTextMinTokens)}

ClaudeContexts ==
    {<<>>, <<" ">>, <<"a">>, <<"B">>}

\* the context get_answer_from_claude was handed
ClaudeContext == IF op = PipelineOp THEN result.context ELSE args.context

\* get_answer_with_retrieval hands its caller the response r; its finally clause
\* closes the connections first.  A direct call of get_answer_from_claude returns r.
ReturnResponse(r) ==
    /\ pc' = "done"
    /\ IF op = PipelineOp
       THEN /\ ret' = IF r.success
                      THEN [k \in DOMAIN r \cup {"sources", "context_used"} |->
                               IF k = "sources" THEN result.sources
                               ELSE IF k = "context_used" THEN TRUE
                               ELSE r[k]]
                      ELSE r
            /\ conns' = Closed(conns)
       ELSE /\ ret' = r
            /\ UNCHANGED conns

Call_get_answer_with_retrieval ==
    /\ pc = "idle"
    /\ op' = PipelineOp
    /\ \E query \in Queries, mode \in QueryMode, selected_text \in PipelineSelectedTexts,
          is_demo_mode \in BOOLEAN, db_url \in BOOLEAN :
          /\ is_demo_mode => db_url
          /\ args' = [NoArgs EXCEPT !.query = query, !.mode = mode,
                                    !.selected_text = selected_text,
                                    !.max_tokens = DefaultMaxTokens,
                                    !.is_demo_mode = is_demo_mode, !.db_url = db_url]
          /\ IF is_demo_mode
             THEN ret' = DemoResponse(query) /\ pc' = "done" /\ UNCHANGED raised
             ELSE IF ~db_url
             THEN raised' = "ValueError" /\ pc' = "done" /\ UNCHANGED ret
             ELSE pc' = "connect" /\ UNCHANGED <<ret, raised>>
    /\ UNCHANGED <<retrieval_vars, conns, model_calls>>
    /\ UNCHANGED <<grounding_calls, endpoint_vars>>

\* retriever.connect_to_db(); min_text_retriever.connect_to_db()
Connect ==
    /\ pc = "connect"
    /\ \/ /\ conns' = [retriever |-> "open", min_text_retriever |-> "open"]
          /\ pc' = "retrieve"
          /\ UNCHANGED <<ret, raised>>
       \/ Unwind(op, "OperationalError", conns)
       \/ Unwind(op, "OperationalError", [conns EXCEPT !.retriever = "open"])
    /\ UNCHANGED <<op, args, retrieval_vars, model_calls>>
    /\ UNCHANGED <<grounding_calls, endpoint_vars>>

\* mutant: SELECTED_TEXT_ONLY mode falls through to the corpus search
RetrieveContext_AlwaysSearch ==
    /\ pc = "retrieve"
    /\ result' = InitialResult(args.query, <<>>)
    /\ pc' = "execute"
    /\ UNCHANGED <<ret, raised, conns>>
    /\ UNCHANGED <<op, args, remaining_tokens, search_results, idx, executes, model_calls>>
    /\ UNCHANGED <<grounding_calls, endpoint_vars>>

\* "if mode == QueryMode.SELECTED_TEXT_ONLY: ... else: ..."
RetrieveContext ==
    /\ pc = "retrieve"
    /\ IF args.mode = "selected_text_only"
       THEN IF args.selected_text = <<>>
            THEN IF KeysSubscript(0).ok
                 THEN /\ ReturnResponse(
                            [success |-> FALSE,
                             answer |-> MessageText(
                                 get_refusal_message(KeysSubscript(0).value, "")),
                             reason |-> "selected_text_required"])
                      /\ UNCHANGED <<raised, result>>
                 ELSE Unwind(op, KeysSubscript(0).exc, conns) /\ UNCHANGED result
            ELSE /\ ReturnResult(op, retrieve_for_selected_text_only(args.selected_text,
                                                                     args.query))
                 /\ UNCHANGED <<raised, conns>>
       ELSE /\ result' = InitialResult(args.query, <<>>)
            /\ pc' = "execute"
            /\ UNCHANGED <<ret, raised, conns>>
    /\ UNCHANGED <<op, args, remaining_tokens, search_results, idx, executes, model_calls>>
    /\ UNCHANGED <<grounding_calls, endpoint_vars>>

\* "if not context_result.get('is_sufficient', False): return {...}"
CheckSufficient ==
    /\ pc = "check_sufficient"
    /\ IF ~result.is_sufficient
       THEN IF KeysSubscript(0).ok
            THEN /\ ReturnResponse(
                       [success |-> FALSE,
                        answer |-> MessageText(
                            get_refusal_message(KeysSubscript(0).value, "")),
                        reason |-> "insufficient_context",
                        sources |-> result.sources])
                 /\ UNCHANGED raised
            ELSE Unwind(op, KeysSubscript(0).exc, conns)
       ELSE pc' = "claude" /\ UNCHANGED <<ret, raised, conns>>
    /\ UNCHANGED <<op, args, retrieval_vars, model_calls>>
    /\ UNCHANGED <<grounding_calls, endpoint_vars>>

Call_get_answer_from_claude ==
    /\ pc = "idle"
    /\ op' = "get_answer_from_claude"
    /\ \E query \in Queries, context \in ClaudeContexts, mode \in QueryMode :
          args' = [NoArgs EXCEPT !.query = query, !.context = context, !.mode = mode]
    /\ pc' = "claude"
    /\ UNCHANGED <<ret, raised, retrieval_vars, conns, model_calls>>
    /\ UNCHANGED <<grounding_calls, endpoint_vars>>

\* get_answer_from_claude up to the API call
ValidateContext ==
    /\ pc = "claude"
    /\ LET validation == validate_context_before_send(ClaudeContext, args.query)
       IN  IF ~validation.is_valid
           THEN ReturnResponse(InvalidContextResponse(validation))
                /\ UNCHANGED model_calls
           ELSE /\ pc' = "api"
                /\ model_calls' = Append(model_calls,
                                         [context |-> validation.filtered_context,
                                          query |-> args.query, mode |-> args.mode])
                /\ UNCHANGED <<ret, conns>>
    /\ UNCHANGED <<op, args, raised, retrieval_vars>>
    /\ UNCHANGED <<grounding_calls, endpoint_vars>>

\* client.messages.create(...) answers or raises; the except clause turns an
\* exception into a refusal dictionary
ModelCall ==
    /\ pc = "api"
    /\ \/ \E answer \in ModelAnswers : ReturnResponse(ApiSuccessResponse(answer))
       \/ ReturnResponse(ApiErrorResponse("APIError"))
    /\ UNCHANGED <<op, args, raised, retrieval_vars, model_calls>>
    /\ UNCHANGED <<grounding_calls, endpoint_vars>>

----------------------------------------------------------------------------
(* HallucinationPrevention: validation and refinement of a candidate answer *)

Max(a, b) == IF a >= b THEN a ELSE b

\* self.hallucination_patterns, in list order; every pattern is a literal phrase
hallucination_patterns ==
    << \* according to my training data
       <<"a", "c", "c", "o", "r", "d", "i", "n", "g", " ", "t", "o", " ", "m", "y", " ", "t", "r", "a", "i", "n", "i", "n", "g", " ", "d", "a", "t", "a">>,
       \* i know that
       <<"i", " ", "k", "n", "o", "w", " ", "t", "h", "a", "t">>,
       \* from general knowledge
       <<"f", "r", "o", "m", " ", "g", "e", "n", "e", "r", "a", "l", " ", "k", "n", "o", "w", "l", "e", "d", "g", "e">>,
       \* i understand that
       <<"i", " ", "u", "n", "d", "e", "r", "s", "t", "a", "n", "d", " ", "t", "h", "a", "t">>,
       \* most likely
       <<"m", "o", "s", "t", " ", "l", "i", "k", "e", "l", "y">>,
       \* probably
       <<"p", "r", "o", "b", "a", "b", "l", "y">>,
       \* perhaps
       <<"p", "e", "r", "h", "a", "p", "s">>,
       \* maybe
       <<"m", "a", "y", "b", "e">>,
       \* could be
       <<"c", "o", "u", "l", "d", " ", "b", "e">>,
       \* might be
       <<"m", "i", "g", "h", "t", " ", "b", "e">>,
       \* i think
       <<"i", " ", "t", "h", "i", "n", "k">>,
       \* in general
       <<"i", "n", " ", "g", "e", "n", "e", "r", "a", "l">>,
       \* typically
       <<"t", "y", "p", "i", "c", "a", "l", "l", "y">>,
       \* usually
       <<"u", "s", "u", "a", "l", "l", "y">>,
       \* often
       <<"o", "f", "t", "e", "n">>,
       \* as you know
       <<"a", "s", " ", "y", "o", "u", " ", "k", "n", "o", "w">>,
       \* everyone knows
       <<"e", "v", "e", "r", "y", "o", "n", "e", " ", "k", "n", "o", "w", "s">>,
       \* common knowledge
       <<"c", "o", "m", "m", "o", "n", " ", "k", "n", "o", "w", "l", "e", "d", "g", "e">>,
       \* external sources
       <<"e", "x", "t", "e", "r", "n", "a", "l", " ", "s", "o", "u", "r", "c", "e", "s">>,
       \* other places
       <<"o", "t", "h", "e", "r", " ", "p", "l", "a", "c", "e", "s">>,
       \* elsewhere
       <<"e", "l", "s", "e", "w", "h", "e", "r", "e">>,
       \* additionally
       <<"a", "d", "d", "i", "t", "i", "o", "n", "a", "l", "l", "y">>,
       \* furthermore
       <<"f", "u", "r", "t", "h", "e", "r", "m", "o", "r", "e">>,
       \* moreover
       <<"m", "o", "r", "e", "o", "v", "e", "r">> >>

\* re.search(pattern, text) for a pattern without metacharacters
ReSearch(pattern, text) == Contains(text, pattern)

\* mutant: the patterns searched in the response as written
DetectedPatterns_CaseSensitive(response) ==
    SelectSeq(hallucination_patterns, LAMBDA p : ReSearch(p, response))

\* detected_patterns: the patterns found in the lower-cased response
DetectedPatterns(response) ==
    SelectSeq(hallucination_patterns, LAMBDA p : ReSearch(p, lower(response)))

\* str.split(sep) for a one-character separator: the pieces between the
\* separators, empty pieces included
SplitOn(s, sep) ==
    LET n == Len(s)
        at == SelectSeq([i \in 1..n |-> i], LAMBDA i : s[i] = sep)
    IN  [k \in 1..(Len(at) + 1) |->
            SubSeq(s, IF k = 1 THEN 1 ELSE at[k - 1] + 1,
                      IF k = Len(at) + 1 THEN n ELSE at[k] - 1)]

\* the sentence has more than five distinct words and none of them is a word of the
\* context
UnsupportedSentence(sentence, context) ==
    LET context_words == ToSet(split(lower(context)))
        sentence_words == ToSet(split(lower(sentence)))
        overlap == sentence_words \cap context_words
    IN  Cardinality(sentence_words) > 5 /\ Cardinality(overlap) = 0

\* f"Potential hallucination: '{sentence.strip()[:100]}...'"
PotentialHallucination(sentence) ==
    <<"Potential hallucination: '">>
        \o SubSeq(strip(sentence), 1, Min(100, Len(strip(sentence)))) \o <<"...'">>

\* the issues of the second pass, which runs only "if context and response:"
SentenceIssues(response, context) ==
    IF context # <<>> /\ response # <<>>
    THEN LET response_sentences == SplitOn(response, ".")
             unsupported == SelectSeq(response_sentences,
                                      LAMBDA s : UnsupportedSentence(s, context))
         IN  [i \in 1..Len(unsupported) |-> PotentialHallucination(unsupported[i])]
    ELSE <<>>

\* mutant: the confidence without the floor at zero
ConfidenceScore_NoFloor(issue_count) == 10 - issue_count

\* max(0.0, 1.0 - (issue_count * 0.1)), in tenths.  The double the code computes is
\* within 2^-52 of the exact tenth, is 1.0 only for no issue and is 0.0 from ten
\* issues on.
ConfidenceScore(issue_count) == Max(0, 10 - issue_count)

validate_response_for_hallucinations(response, context) ==
    LET detected_patterns == DetectedPatterns(response)
        sentence_issues == SentenceIssues(response, context)
        issues == detected_patterns \o sentence_issues
        flagged == detected_patterns # <<>> \/ sentence_issues # <<>>
    IN  [is_valid |-> ~flagged,
         hallucination_detected |-> flagged,
         issues |-> issues,
         confidence_score |-> ConfidenceScore(Len(issues))]

\* mutant: the pattern is searched in the sentence as written, not in lower case
RemovePattern_CaseSensitive(refined_response, pattern) ==
    LET sentences == SplitOn(refined_response, ".")
        kept == SelectSeq(sentences, LAMBDA s : ~ReSearch(pattern, s))
        filtered_sentences == [i \in 1..Len(kept) |-> strip(kept[i])]
    IN  Join(filtered_sentences, <<".", " ">>)

\* one pass of the loop of refine_response: the sentences that match the pattern are
\* dropped, the others stripped and joined again
RemovePattern(refined_response, pattern) ==
    LET sentences == SplitOn(refined_response, ".")
        kept == SelectSeq(sentences, LAMBDA s : ~ReSearch(pattern, lower(s)))
        filtered_sentences == [i \in 1..Len(kept) |-> strip(kept[i])]
    IN  Join(filtered_sentences, <<".", " ">>)

RECURSIVE RemovePatternsFrom(_, _)
\* the loop over hallucination_patterns from the i-th pattern on
\* (the text of one pass is a string before the next pass starts)
RemovePatternsFrom(refined_response, i) ==
    IF i > Len(hallucination_patterns) THEN refined_response
    ELSE LET after == RemovePattern(refined_response, hallucination_patterns[i])
         IN  IF Len(after) >= 0 THEN RemovePatternsFrom(after, i + 1) ELSE after

\* overlap_ratio >= 0.3 for overlap_ratio = common / total, a quotient of two small
\* integers
AtLeastThreeTenths(common, total) == 10 * common >= 3 * total

_response_is_contextually_valid(response, context) ==
    IF context = <<>> \/ response = <<>> THEN FALSE
    ELSE LET response_words == ToSet(split(lower(response)))
             context_words == ToSet(split(lower(context)))
             common_words == response_words \cap context_words
         IN  IF Cardinality(common_words) = 0 THEN FALSE
             ELSE AtLeastThreeTenths(Cardinality(common_words),
                                     Cardinality(response_words))

\* the characters of the two catalog messages this component returns as text
MessageChars(message) ==
    IF message = refusal_messages["insufficient_context"]
    THEN << "I", " ", "c", "a", "n", "n", "o", "t", " ", "a", "n", "s", "w", "e", "r", " ", "t",
            "h", "i", "s", " ", "q", "u", "e", "s", "t", "i", "o", "n", " ", "b", "a", "s", "e",
            "d", " ", "o", "n", " ", "t", "h", "e", " ", "p", "r", "o", "v", "i", "d", "e", "d",
            " ", "b", "o", "o", "k", " ", "c", "o", "n", "t", "e", "n", "t", ".", " ", "T", "h",
            "e", " ", "r", "e", "t", "r", "i", "e", "v", "e", "d", " ", "i", "n", "f", "o", "r",
            "m", "a", "t", "i", "o", "n", " ", "d", "o", "e", "s", " ", "n", "o", "t", " ", "c",
            "o", "n", "t", "a", "i", "n", " ", "s", "u", "f", "f", "i", "c", "i", "e", "n", "t",
            " ", "d", "e", "t", "a", "i", "l", "s", " ", "t", "o", " ", "p", "r", "o", "v", "i",
            "d", "e", " ", "a", "n", " ", "a", "c", "c", "u", "r", "a", "t", "e", " ", "r", "e",
            "s", "p", "o", "n", "s", "e", ".", " ", "P", "l", "e", "a", "s", "e", " ", "r", "e",
            "f", "e", "r", " ", "t", "o", " ", "t", "h", "e", " ", "r", "e", "l", "e", "v", "a",
            "n", "t", " ", "s", "e", "c", "t", "i", "o", "n", "s", " ", "o", "f", " ", "t", "h",
            "e", " ", "b", "o", "o", "k", " ", "f", "o", "r", " ", "t", "h", "e", " ", "i", "n",
            "f", "o", "r", "m", "a", "t", "i", "o", "n", " ", "y", "o", "u", " ", "n", "e", "e",
            "d", "." >>
    ELSE IF message = refusal_messages["hallucination_prevention"]
    THEN << "I", " ", "c", "a", "n", "n", "o", "t", " ", "a", "n", "s", "w", "e", "r", " ", "t",
            "h", "i", "s", " ", "q", "u", "e", "s", "t", "i", "o", "n", " ", "a", "s", " ", "i",
            "t", " ", "r", "e", "q", "u", "i", "r", "e", "s", " ", "i", "n", "f", "o", "r", "m",
            "a", "t", "i", "o", "n", " ", "n", "o", "t", " ", "a", "v", "a", "i", "l", "a", "b",
            "l", "e", " ", "i", "n", " ", "t", "h", "e", " ", "p", "r", "o", "v", "i", "d", "e",
            "d", " ", "b", "o", "o", "k", " ", "c", "o", "n", "t", "e", "n", "t", ".", " ", "I",
            " ", "a", "m", " ", "d", "e", "s", "i", "g", "n", "e", "d", " ", "t", "o", " ", "a",
            "n", "s", "w", "e", "r", " ", "o", "n", "l", "y", " ", "f", "r", "o", "m", " ", "t",
            "h", "e", " ", "s", "p", "e", "c", "i", "f", "i", "c", " ", "b", "o", "o", "k", " ",
            "c", "o", "n", "t", "e", "n", "t", " ", "p", "r", "o", "v", "i", "d", "e", "d", ".",
            " ", "P", "l", "e", "a", "s", "e", " ", "c", "o", "n", "s", "u", "l", "t", " ", "t",
            "h", "e", " ", "b", "o", "o", "k", " ", "d", "i", "r", "e", "c", "t", "l", "y", " ",
            "f", "o", "r", " ", "t", "h", "i", "s", " ", "i", "n", "f", "o", "r", "m", "a", "t",
            "i", "o", "n", "." >>
    ELSE MessageText(message)

refine_response(response, context) ==
    LET refined_response == RemovePatternsFrom(response, 1)
    IN  IF ~_response_is_contextually_valid(refined_response, context)
        THEN MessageChars(get_refusal_message("insufficient_context", ""))
        ELSE refined_response

run_hallucination_prevention_pipeline(query, context, response) ==
    LET validation == validate_response_for_hallucinations(response, context)
        refined == refine_response(response, context)
        pipeline_result == [original_response |-> response, validation |-> validation,
                            refined_response |-> <<>>, needs_refusal |-> FALSE]
    IN  IF validation.hallucination_detected
        THEN IF refined # response
                /\ validate_response_for_hallucinations(refined, context).hallucination_detected
             THEN [pipeline_result EXCEPT
                      !.needs_refusal = TRUE,
                      !.refined_response =
                          MessageChars(get_refusal_message("hallucination_prevention", ""))]
             ELSE [pipeline_result EXCEPT !.refined_response = refined]
        ELSE [pipeline_result EXCEPT !.refined_response = response]

\* most sentences of a candidate answer
MaxAnswerSentences == 2
\* most patterns in the candidate answers that list patterns
MostPatterns == 11

\* sentences of the candidate answers
AnswerSentences ==
    { \* a short sentence of context words: "a b c d"
      <<"a", " ", "b", " ", "c", " ", "d">>,
      \* six distinct words, none of the context: "e f g h i j"
      <<"e", " ", "f", " ", "g", " ", "h", " ", "i", " ", "j">>,
      \* six words, one distinct: "e e e e e e"
      <<"e", " ", "e", " ", "e", " ", "e", " ", "e", " ", "e">>,
      \* six distinct words, two of the context: "a b e f g h"
      <<"a", " ", "b", " ", "e", " ", "f", " ", "g", " ", "h">>,
      \* a pattern with a capital: "Maybe a"
      <<"M", "a", "y", "b", "e", " ", "a">>,
      \* a pattern of two words: "b i think"
      <<"b", " ", "i", " ", "t", "h", "i", "n", "k">>,
      \* an empty sentence: ""
      <<>> }

\* the sentences joined by ". ", with or without a final "."
AnswerText(sentences, final_period) ==
    Join(sentences, <<".", " ">>) \o (IF final_period THEN <<".">> ELSE <<>>)

\* one sentence made of the first n patterns
PatternRun(n) == Join(SubSeq(hallucination_patterns, 1, n), <<" ">>)

Answers ==
    {AnswerText(ss, fp) : ss \in SeqsUpTo(AnswerSentences, MaxAnswerSentences),
                          fp \in BOOLEAN}
        \cup {PatternRun(n) : n \in (MostPatterns - 2)..MostPatterns}

\* contexts an answer is validated against
GroundingContexts ==
    { \* no context
      <<>>,
      \* whitespace only
      <<" ">>,
      \* four words, one with a capital
      <<"A", " ", "b", " ", "c", " ", "d">>,
      \* a word of the catalog messages
      <<"t", "h", "e", " ", "a">> }

Call_validate_response_for_hallucinations ==
    /\ pc = "idle"
    /\ \E response \in Answers, context \in GroundingContexts :
          /\ args' = [NoArgs EXCEPT !.response = response, !.context = context]
          /\ ret' = validate_response_for_hallucinations(response, context)
    /\ op' = "validate_response_for_hallucinations"
    /\ pc' = "done"
    /\ UNCHANGED <<raised, retrieval_vars, conns, model_calls>>
    /\ grounding_calls' = Append(grounding_calls,
                                 [fn |-> "validate_response_for_hallucinations", response |-> args'.response,
                                  context |-> args'.context])
    /\ UNCHANGED endpoint_vars

Call_refine_response ==
    /\ pc = "idle"
    /\ \E response \in Answers, context \in GroundingContexts :
          /\ args' = [NoArgs EXCEPT !.response = response, !.context = context]
          /\ ret' = [text |-> refine_response(response, context)]
    /\ op' = "refine_response"
    /\ pc' = "done"
    /\ UNCHANGED <<raised, retrieval_vars, conns, model_calls>>
    /\ grounding_calls' = Append(grounding_calls,
                                 [fn |-> "refine_response", response |-> args'.response,
                                  context |-> args'.context])
    /\ UNCHANGED endpoint_vars

Call_run_hallucination_prevention_pipeline ==
    /\ pc = "idle"
    /\ \E query \in Queries, response \in Answers, context \in GroundingContexts :
          /\ args' = [NoArgs EXCEPT !.query = query, !.response = response,
                                    !.context = context]
          /\ ret' = run_hallucination_prevention_pipeline(query, context, response)
    /\ op' = "run_hallucination_prevention_pipeline"
    /\ pc' = "done"
    /\ UNCHANGED <<raised, retrieval_vars, conns, model_calls>>
    /\ grounding_calls' = Append(grounding_calls,
                                 [fn |-> "run_hallucination_prevention_pipeline", response |-> args'.response,
                                  context |-> args'.context])
    /\ UNCHANGED endpoint_vars

----------------------------------------------------------------------------
(* ConstitutionEnforcer and the /query endpoint of the FastAPI application *)

\* d.get(key, default)
DictGet(d, key, default) == IF key \in DOMAIN d THEN d[key] ELSE default

reference_patterns ==
    << <<"c", "h", "a", "p", "t", "e", "r">>,
       <<"s", "e", "c", "t", "i", "o", "n">>,
       <<"m", "o", "d", "u", "l", "e">>,
       <<"p", "a", "g", "e">>,
       <<"f", "i", "g", "u", "r", "e">>,
       <<"s", "e", "c", "t", "i", "o", "n">>,
       <<"s", "u", "b", "s", "e", "c", "t", "i", "o", "n">>,
       <<"b", "o", "o", "k">>,
       <<"d", "o", "c", "u", "m", "e", "n", "t", "a", "t", "i", "o", "n">> >>

\* any(pattern in response.lower() for pattern in reference_patterns)
_has_source_reference(response) ==
    \E k \in 1..Len(reference_patterns) : Contains(lower(response), reference_patterns[k])

check_constitutional_compliance(query, context, response) ==
    LET without_context == strip(context) = <<>> /\ strip(response) # <<>>
        without_reference == strip(response) # <<>> /\ ~_has_source_reference(response)
    IN  [is_compliant |-> ~without_context,
         issues |-> IF without_context
                    THEN <<[principle |-> "I",
                            issue |-> "Response provided without context - potential hallucination",
                            severity |-> "critical"]>>
                    ELSE <<>>,
         recommendations |-> IF without_reference
                             THEN <<[principle |-> "V",
                                     recommendation |-> "Include references to specific book sections in response"]>>
                             ELSE <<>>]

\* the refusal enforce_constitution_rules returns on a critical issue
ComplianceRefusal ==
    << "I", " ", "c", "a", "n", "n", "o", "t", " ", "a", "n", "s", "w", "e", "r",
       " ", "t", "h", "i", "s", " ", "q", "u", "e", "s", "t", "i", "o", "n", " ",
       "b", "a", "s", "e", "d", " ", "o", "n", " ", "t", "h", "e", " ", "b", "o",
       "o", "k", " ", "c", "o", "n", "t", "e", "n", "t", " ", "p", "r", "o", "v",
       "i", "d", "e", "d", ".", " ", "T", "h", "e", " ", "r", "e", "s", "p", "o",
       "n", "s", "e", " ", "w", "o", "u", "l", "d", " ", "r", "e", "q", "u", "i",
       "r", "e", " ", "i", "n", "f", "o", "r", "m", "a", "t", "i", "o", "n", " ",
       "n", "o", "t", " ", "a", "v", "a", "i", "l", "a", "b", "l", "e", " ", "i",
       "n", " ", "t", "h", "e", " ", "b", "o", "o", "k", ".", " ", "P", "l", "e",
       "a", "s", "e", " ", "r", "e", "f", "e", "r", " ", "t", "o", " ", "t", "h",
       "e", " ", "r", "e", "l", "e", "v", "a", "n", "t", " ", "b", "o", "o", "k",
       " ", "s", "e", "c", "t", "i", "o", "n", "s", " ", "f", "o", "r", " ", "a",
       "c", "c", "u", "r", "a", "t", "e", " ", "i", "n", "f", "o", "r", "m", "a",
       "t", "i", "o", "n", "." >>

\* the note enforce_constitution_rules adds to a response without a reference
SourceNote ==
    << "\n", "\n", "N", "o", "t", "e", ":", " ", "T", "h", "i", "s", " ", "i", "n",
       "f", "o", "r", "m", "a", "t", "i", "o", "n", " ", "i", "s", " ", "b", "a",
       "s", "e", "d", " ", "o", "n", " ", "t", "h", "e", " ", "b", "o", "o", "k",
       " ", "c", "o", "n", "t", "e", "n", "t", ".", " ", "F", "o", "r", " ", "m",
       "o", "r", "e", " ", "d", "e", "t", "a", "i", "l", "s", ",", " ", "p", "l",
       "e", "a", "s", "e", " ", "r", "e", "f", "e", "r", " ", "t", "o", " ", "t",
       "h", "e", " ", "s", "p", "e", "c", "i", "f", "i", "c", " ", "b", "o", "o",
       "k", " ", "s", "e", "c", "t", "i", "o", "n", "s", " ", "t", "h", "a", "t",
       " ", "c", "o", "n", "t", "a", "i", "n", " ", "t", "h", "i", "s", " ", "i",
       "n", "f", "o", "r", "m", "a", "t", "i", "o", "n", "." >>

enforce_constitution_rules(query, context, response) ==
    LET compliance == check_constitutional_compliance(query, context, response)
        critical == \E i \in 1..Len(compliance.issues) :
                        compliance.issues[i].severity = "critical"
    IN  IF ~compliance.is_compliant /\ critical THEN ComplianceRefusal
        ELSE IF ~_has_source_reference(response) /\ context # <<>>
        THEN response \o SourceNote
        ELSE response

\* QueryRequest.mode is any string; one that is not a QueryMode value
RequestModes == QueryMode \cup {"chapter_scope"}

EndpointDemoPrefix ==
    << "T", "h", "i", "s", " ", "i", "s", " ", "a", " ", "d", "e", "m", "o", " ",
       "r", "e", "s", "p", "o", "n", "s", "e", " ", "f", "o", "r", " ", "q", "u",
       "e", "r", "y", ":", " ", "'" >>

EndpointDemoSuffix ==
    << "'", ".", " ", "I", "n", " ", "p", "r", "o", "d", "u", "c", "t", "i", "o",
       "n", " ", "m", "o", "d", "e", ",", " ", "t", "h", "e", " ", "R", "A", "G",
       " ", "s", "y", "s", "t", "e", "m", " ", "w", "o", "u", "l", "d", " ", "r",
       "e", "t", "r", "i", "e", "v", "e", " ", "r", "e", "l", "e", "v", "a", "n",
       "t", " ", "c", "o", "n", "t", "e", "n", "t", " ", "f", "r", "o", "m", " ",
       "y", "o", "u", "r", " ", "r", "o", "b", "o", "t", "i", "c", "s", " ", "b",
       "o", "o", "k", " ", "a", "n", "d", " ", "g", "e", "n", "e", "r", "a", "t",
       "e", " ", "a", "n", " ", "a", "n", "s", "w", "e", "r", " ", "u", "s", "i",
       "n", "g", " ", "C", "l", "a", "u", "d", "e", " ", "A", "I", ".", " ", "T",
       "h", "e", " ", "s", "y", "s", "t", "e", "m", " ", "i", "s", " ", "r", "u",
       "n", "n", "i", "n", "g", " ", "i", "n", " ", "d", "e", "m", "o", " ", "m",
       "o", "d", "e", " ", "a", "n", "d", " ", "s", "i", "m", "u", "l", "a", "t",
       "e", "s", " ", "r", "e", "s", "p", "o", "n", "s", "e", "s", " ", "w", "i",
       "t", "h", "o", "u", "t", " ", "a", "c", "c", "e", "s", "s", "i", "n", "g",
       " ", "t", "h", "e", " ", "d", "a", "t", "a", "b", "a", "s", "e", "." >>

QueryResponse(success, answer, sources, context_used, metadata) ==
    [status_code |-> 200, success |-> success, answer |-> answer, sources |-> sources,
     context_used |-> context_used, metadata |-> metadata]

\* the response of the demo branch
EndpointDemoResponse(req) ==
    LET demo_answer == EndpointDemoPrefix \o req.query \o EndpointDemoSuffix
    IN  QueryResponse(TRUE, demo_answer, <<"Demo Mode">>, TRUE,
                      [was_refused |-> FALSE,
                       token_count |-> Len(split(demo_answer)),
                       selected_text_used |-> req.mode = "selected_text_only",
                       demo_mode |-> TRUE])

\* raise HTTPException(status_code=400, detail=...), and its str()
InvalidMode ==
    [status_code |-> 400,
     str |-> "400: Invalid mode. Use 'book_scope' or 'selected_text_only'"]

\* "except Exception as e: raise HTTPException(status_code=500, ...)": the clause
\* encloses the whole body and catches every exception raised in it, an
\* HTTPException (a subclass of Exception) included
ExceptException(e) ==
    [status_code |-> 500, detail |-> "Error processing query: " \o e]

\* the response built from what get_answer_with_retrieval returned
EndpointResponse(req, claude_response) ==
    IF ~claude_response.success
    THEN QueryResponse(FALSE,
                       DictGet(claude_response, "answer", <<"Unable to process query">>),
                       DictGet(claude_response, "sources", <<>>),
                       FALSE,
                       [was_refused |-> TRUE,
                        reason |-> DictGet(claude_response, "reason", "processing_error"),
                        error |-> DictGet(claude_response, "error", "Unknown error")])
    ELSE LET context == DictGet(claude_response, "context", <<>>)
             final_response == enforce_constitution_rules(req.query, context,
                                                          claude_response.answer)
             compliance_check == check_constitutional_compliance(req.query, context,
                                                                 final_response)
         IN  IF ~compliance_check.is_compliant
             THEN QueryResponse(FALSE,
                                MessageText(get_refusal_message(ListKeysSubscript(0).value, "")),
                                DictGet(claude_response, "sources", <<>>),
                                FALSE,
                                [was_refused |-> TRUE,
                                 reason |-> "constitutional_violation",
                                 compliance_issues |-> compliance_check.issues])
             ELSE QueryResponse(TRUE,
                                final_response,
                                DictGet(claude_response, "sources", <<>>),
                                DictGet(claude_response, "context_used", TRUE),
                                [was_refused |-> FALSE,
                                 token_count |->
                                     DictGet(DictGet(claude_response, "usage", <<>>),
                                             "output_tokens", 0),
                                 input_tokens |->
                                     DictGet(DictGet(claude_response, "usage", <<>>),
                                             "input_tokens", 0),
                                 selected_text_used |-> req.mode = "selected_text_only"])

\* query_endpoint up to "await claude_client.get_answer_with_retrieval(...)"; the
\* request is served in demo mode when NEON_DB_URL is the demo connection string
Call_query_endpoint ==
    /\ pc = "idle"
    /\ \E query \in Queries, mode \in RequestModes, selected_text \in PipelineSelectedTexts,
          demo_mode \in BOOLEAN :
          LET req == [query |-> query, mode |-> mode, selected_text |-> selected_text,
                      demo_mode |-> demo_mode]
          IN  /\ request' = req
              /\ IF mode \notin QueryMode
                 THEN /\ http' = ExceptException(InvalidMode.str)
                      /\ op' = "query_endpoint"
                      /\ pc' = "done"
                      /\ UNCHANGED args
                 ELSE IF demo_mode
                 THEN /\ http' = EndpointDemoResponse(req)
                      /\ op' = "query_endpoint"
                      /\ pc' = "done"
                      /\ UNCHANGED args
                 ELSE /\ op' = PipelineOp
                      /\ args' = [NoArgs EXCEPT
                                     !.query = query, !.mode = mode,
                                     !.selected_text = IF mode = "selected_text_only"
                                                       THEN selected_text ELSE <<>>,
                                     !.max_tokens = DefaultMaxTokens,
                                     !.is_demo_mode = FALSE, !.db_url = TRUE]
                      /\ pc' = "connect"
                      /\ UNCHANGED http
    /\ UNCHANGED <<ret, raised, retrieval_vars, conns, model_calls, grounding_calls>>

\* query_endpoint from the return of get_answer_with_retrieval on: the response, or
\* the except clause when the call raised
Respond ==
    /\ pc = "done"
    /\ op = PipelineOp
    /\ request # NoValue
    /\ http = NoValue
    /\ http' = IF raised # "None" THEN ExceptException(raised)
               ELSE EndpointResponse(request, ret)
    /\ UNCHANGED <<pc, op, args, ret, raised, retrieval_vars, conns, model_calls,
                   grounding_calls, request>>

Next ==
    \/ Call_find_relevant_sentences
    \/ Call_should_refuse_answer
    \/ Call_retrieve_minimum_context
    \/ Call_retrieve_for_book_scope
    \/ Call_retrieve_for_selected_text_only
    \/ Execute
    \/ LoopBody
    \/ LoopExit
    \/ Call_get_answer_with_retrieval
    \/ Connect
    \/ RetrieveContext
    \/ CheckSufficient
    \/ Call_get_answer_from_claude
    \/ ValidateContext
    \/ ModelCall
    \/ Call_validate_response_for_hallucinations
    \/ Call_refine_response
    \/ Call_run_hallucination_prevention_pipeline
    \/ Call_query_endpoint
    \/ Respond

Spec == Init /\ [][Next]_vars

----------------------------------------------------------------------------
(* Properties *)

\* the entry point has returned normally
Returned(entry) == op = entry /\ pc = "done" /\ raised = "None"

StartsWith(text, prefix) ==
    Len(prefix) <= Len(text) /\ SubSeq(text, 1, Len(prefix)) = prefix

WhitespaceOnly(text) == \A i \in 1..Len(text) : IsSpace(text[i])

\* whitespace word count of the selected excerpt
ExcerptWords == Len(split(args.selected_text))

ExcerptWithinBudget ==
    args.min_tokens <= ExcerptWords /\ ExcerptWords <= args.max_tokens

\* C1: every result of retrieve_minimum_context and retrieve_for_book_scope, with or
\* without a selected excerpt, has token_count <= max_tokens.
C1_TokenCountWithinBudget ==
    (Returned("retrieve_minimum_context") \/ Returned("retrieve_for_book_scope"))
        => ret.token_count <= args.max_tokens

\* C2 as stated: whenever the word count w of the selected excerpt (an empty excerpt
\* included) satisfies min_tokens <= w <= max_tokens, retrieve_minimum_context
\* issues no query and returns the excerpt verbatim, the single user-selected label,
\* token_count = w and is_sufficient.
C2_RoundTripAnyExcerpt ==
    (op = "retrieve_minimum_context" /\ ExcerptWithinBudget)
        => /\ executes = <<>>
           /\ pc = "done"
           /\ raised = "None" =>
                 /\ ret.context = args.selected_text
                 /\ ret.sources = <<UserSelectedLabel>>
                 /\ ret.token_count = ExcerptWords
                 /\ ret.is_sufficient

\* C2 amended: the same for every non-empty selected excerpt.
C2_RoundTrip ==
    (op = "retrieve_minimum_context" /\ args.selected_text # <<>> /\ ExcerptWithinBudget)
        => /\ executes = <<>>
           /\ pc = "done"
           /\ raised = "None" =>
                 /\ ret.context = args.selected_text
                 /\ ret.sources = <<UserSelectedLabel>>
                 /\ ret.token_count = ExcerptWords
                 /\ ret.is_sufficient

\* a sufficient excerpt that leaves room in the budget was returned
C2_Witness ==
    /\ Returned("retrieve_minimum_context")
    /\ ExcerptWords >= 1
    /\ args.min_tokens = ExcerptWords
    /\ ExcerptWords < args.max_tokens

\* C3: a non-empty excerpt is never dropped: throughout retrieve_minimum_context the
\* context begins with the excerpt verbatim and the first source label is the
\* user-selected label, and that result is what is returned.
C3_ExcerptNeverDropped ==
    (op = "retrieve_minimum_context" /\ args.selected_text # <<>> /\ raised = "None")
        => /\ StartsWith(result.context, args.selected_text)
           /\ Len(result.sources) >= 1
           /\ result.sources[1] = UserSelectedLabel
           /\ pc = "done" => ret = result

\* an insufficient excerpt was returned with a corpus excerpt appended after it
C3_Witness ==
    /\ Returned("retrieve_minimum_context")
    /\ args.selected_text # <<>>
    /\ Len(ret.sources) >= 2
    /\ Len(ret.context) > Len(args.selected_text)

\* C4: on a context that is empty or whitespace-only should_refuse_answer refuses
\* with reason no_context (type no_context_provided), for every query and min length.
C4_EmptyContextIsNoContext ==
    (Returned("should_refuse_answer") /\ WhitespaceOnly(args.context))
        => /\ ret.should_refuse
           /\ ret.reason = "no_context"
           /\ ret.refusal_type = "no_context_provided"
           /\ ret.message = refusal_messages["no_context_provided"]

\* a whitespace-only context, a query with a word and a min length of zero
C4_Witness ==
    /\ Returned("should_refuse_answer")
    /\ args.context # <<>>
    /\ WhitespaceOnly(args.context)
    /\ split(args.query) # <<>>
    /\ args.min_context_length = 0

SharesNoWord(context, query) ==
    ToSet(split(lower(context))) \cap ToSet(split(lower(query))) = {}

C6_RelevanceDecidesAnyContext ==
    (Returned("should_refuse_answer")
     /\ Len(strip(args.context)) >= args.min_context_length)
        => /\ ret.should_refuse <=> (/\ SharesNoWord(args.context, args.query)
                                     /\ split(args.query) # <<>>)
           /\ ret.should_refuse => ret.reason = "no_relevance"

\* C6 amended: the same for every context that is not empty after stripping.
C6_RelevanceDecides ==
    (/\ Returned("should_refuse_answer")
     /\ Len(strip(args.context)) > 0
     /\ Len(strip(args.context)) >= args.min_context_length)
        => /\ ret.should_refuse <=> (/\ SharesNoWord(args.context, args.query)
                                     /\ split(args.query) # <<>>)
           /\ ret.should_refuse => /\ ret.reason = "no_relevance"
                                   /\ ret.refusal_type = "no_relevant_content"

\* a long enough context passes on its one word, which the query has in the other
\* case
C6_Witness ==
    /\ Returned("should_refuse_answer")
    /\ args.min_context_length > 0
    /\ Len(strip(args.context)) >= args.min_context_length
    /\ ToSet(split(args.context)) = {<<"B">>}
    /\ ToSet(split(args.query)) = {<<"b">>}
    /\ ~ret.should_refuse

\* C7: in the query pipeline the model is never called with a context that the gate
\* would refuse for the query.
C7_NoModelCallWhenGateRefuses ==
    op = PipelineOp =>
        \A i \in 1..Len(model_calls) :
            ~should_refuse_answer(model_calls[i].context, model_calls[i].query,
                                  DefaultMinContextLength).should_refuse

\* get_answer_with_retrieval has ended after retrieval left it an insufficient
\* context, or after it found SELECTED_TEXT_ONLY mode without selected text
InsufficientContextCase ==
    /\ op = PipelineOp
    /\ pc = "done"
    /\ conns.min_text_retriever = "closed"
    /\ raised # "DatabaseError"
    /\ ~result.is_sufficient

\* C8: insufficient context is a normal outcome: get_answer_with_retrieval returns
\* success = false with a catalog message as the answer and raises nothing.
C8_InsufficientContextIsRefusal ==
    InsufficientContextCase
        => /\ raised = "None"
           /\ ~ret.success
           /\ ret.answer \in CannedAnswers

\* C9: a failed search query is attempted once, leaves the entry point as an error
\* and returns no result.
C9_SearchFailurePropagates ==
    /\ Len(executes) <= 1
    /\ (\E i \in 1..Len(executes) : executes[i] = "error")
          => /\ pc = "done"
             /\ raised = "DatabaseError"
             /\ ret = NoValue

\* the query failed after an excerpt had been taken as the context
C9_Witness ==
    /\ op = "retrieve_minimum_context"
    /\ executes = <<"error">>
    /\ result.context # <<>>
    /\ raised = "DatabaseError"

NoSentenceScores(text, query) ==
    \A i \in 1..Len(Sentences(text)) : SentenceScore(Sentences(text)[i], query) = 0

\* C10: _find_relevant_sentences returns the empty string whenever no sentence of
\* the text scores above zero.
C10_EmptyWhenNothingScores ==
    (Returned("_find_relevant_sentences") /\ NoSentenceScores(args.text, args.query))
        => ret.text = <<>>

\* the row the retrieval loop is about to process
CurrentChunk == Chunk(search_results[idx])

\* C11: a ranked chunk none of whose sentences contains a query term is skipped: the
\* pass of the loop over it leaves the context, the token count, the sources and the
\* remaining budget as they were.
C11_UnscoredChunkSkipped ==
    [][(/\ pc = "loop"
        /\ ~LoopEnds
        /\ NoSentenceScores(CurrentChunk.content, args.query))
          => (result' = result /\ remaining_tokens' = remaining_tokens)]_vars

\* the sentences a returned excerpt is made of
ReturnedSentences == Sentences(ret.text)

\* sentence i of the text goes before sentence j: a higher score, or the same score
\* and an earlier place in the text
GoesBefore(text, query, i, j) ==
    LET sc(m) == SentenceScore(Sentences(text)[m], query)
    IN  sc(i) > sc(j) \/ (sc(i) = sc(j) /\ i < j)

\* the positive-score sentences of the text that fewer than k others go before, each
\* at the place given by how many go before it
ExpectedSelection(text, query, k) ==
    LET sentences == Sentences(text)
        positive == {i \in 1..Len(sentences) : SentenceScore(sentences[i], query) > 0}
        ahead(i) == Cardinality({j \in positive : GoesBefore(text, query, j, i)})
        chosen == {i \in positive : ahead(i) < k}
    IN  [p \in 1..Cardinality(chosen) |-> sentences[CHOOSE i \in chosen : ahead(i) = p - 1]]

\* C12: _find_relevant_sentences returns at most max_sentences sentences, each with
\* a score above zero, and they are the max_sentences highest-scoring positive-score
\* sentences of the text in descending score order, ties in text order.
C12_TopPositiveSentencesInOrder ==
    Returned("_find_relevant_sentences")
        => /\ Len(ReturnedSentences) <= args.max_sentences
           /\ \A i \in 1..Len(ReturnedSentences) :
                 SentenceScore(ReturnedSentences[i], args.query) > 0
           /\ ReturnedSentences = ExpectedSelection(args.text, args.query, args.max_sentences)

\* two sentences were returned, the second of the text first because it scores higher
C12_Witness ==
    /\ Returned("_find_relevant_sentences")
    /\ Len(Sentences(args.text)) = 2
    /\ Len(ReturnedSentences) = 2
    /\ ReturnedSentences[1] = Sentences(args.text)[2]
    /\ SentenceScore(ReturnedSentences[1], args.query)
          > SentenceScore(ReturnedSentences[2], args.query)

SourcePairs(label) ==
    {<<c.chapter, c.section>> : c \in {d \in Corpus : SourceRef(d) = label}}

\* C14: the sources of a returned context are deduplicated by chapter/section pair:
\* no two labels come from rows with the same chapter and section.
C14_SourcesDedupByChapterSection ==
    (Returned("retrieve_minimum_context") \/ Returned("retrieve_for_book_scope"))
        => \A i, j \in 1..Len(ret.sources) :
              i < j => SourcePairs(ret.sources[i]) \cap SourcePairs(ret.sources[j]) = {}

\* C15: every returned result has is_sufficient = (token_count >= min_tokens), with
\* the caller's min_tokens in retrieve_minimum_context, 100 in
\* retrieve_for_book_scope and 50 in retrieve_for_selected_text_only.
C15_SufficientIffEnoughTokens ==
    /\ Returned("retrieve_minimum_context")
          => (ret.is_sufficient <=> ret.token_count >= args.min_tokens)
    /\ Returned("retrieve_for_book_scope")
          => (ret.is_sufficient <=> ret.token_count >= BookScopeMinTokens)
    /\ Returned("retrieve_for_selected_text_only")
          => (ret.is_sufficient <=> ret.token_count >= SelectedTextMinTokens)

\* the answer contains the phrase when letter case is ignored
HasPhrase(answer, phrase) ==
    \E i \in 0..(Len(answer) - Len(phrase)) :
        \A k \in 1..Len(phrase) : LowerChar(answer[i + k]) = phrase[k]

InSeq(x, seq) == \E i \in 1..Len(seq) : seq[i] = x

\* C16: an answer that contains a hallucination pattern in any letter case is
\* reported as not valid, with a hallucination detected and the pattern among the
\* issues, whatever the context (the empty one included).
C16_PatternFlagsAnswer ==
    Returned("validate_response_for_hallucinations")
        => \A k \in 1..Len(hallucination_patterns) :
              HasPhrase(args.response, hallucination_patterns[k])
                 => /\ ret.hallucination_detected
                    /\ ~ret.is_valid
                    /\ InSeq(hallucination_patterns[k], ret.issues)

\* an answer with a pattern written with a capital letter, validated without context
C16_Witness ==
    /\ Returned("validate_response_for_hallucinations")
    /\ args.context = <<>>
    /\ \E k \in 1..Len(hallucination_patterns) :
          /\ HasPhrase(args.response, hallucination_patterns[k])
          /\ ~Contains(args.response, hallucination_patterns[k])
          /\ InSeq(hallucination_patterns[k], ret.issues)

\* the sentence is longer than five words and shares no lower-case word with the
\* context
LongSentenceWithoutOverlap(sentence, context) ==
    /\ Len(split(sentence)) > 5
    /\ ToSet(split(lower(sentence))) \cap ToSet(split(lower(context))) = {}

\* C17: for every answer and every context, each sentence of the answer that is
\* longer than five words and shares no lower-case word with the context is among
\* the issues, and the answer is reported as not valid.
C17_UnsupportedSentenceFlagged ==
    Returned("validate_response_for_hallucinations")
        => \A i \in 1..Len(SplitOn(args.response, ".")) :
              LongSentenceWithoutOverlap(SplitOn(args.response, ".")[i], args.context)
                 => /\ ~ret.is_valid
                    /\ ret.hallucination_detected
                    /\ InSeq(PotentialHallucination(SplitOn(args.response, ".")[i]),
                             ret.issues)

\* C18: the confidence (in tenths) is max(0, 10 - number of issues): it lies between
\* 0 and 10, is 10 exactly when there is no issue and 0 from ten issues on; and the
\* answer is valid, with no hallucination detected, exactly when there is no issue.
C18_ConfidenceFromIssueCount ==
    Returned("validate_response_for_hallucinations")
        => /\ ret.confidence_score = Max(0, 10 - Len(ret.issues))
           /\ ret.confidence_score \in 0..10
           /\ ret.confidence_score = 10 <=> ret.issues = <<>>
           /\ Len(ret.issues) >= 10 => ret.confidence_score = 0
           /\ ret.is_valid <=> ret.issues = <<>>
           /\ ret.hallucination_detected <=> ~ret.is_valid

\* more than ten issues, patterns and an unsupported sentence among them
C18_Witness ==
    /\ Returned("validate_response_for_hallucinations")
    /\ Len(ret.issues) > 10
    /\ Len(DetectedPatterns(args.response)) < Len(ret.issues)
    /\ ret.confidence_score = 0

HallucinationMessage == MessageChars(refusal_messages["hallucination_prevention"])

\* C19: when the text left after the sentences matching a pattern are removed is
\* empty, or fewer than 30% of its distinct words occur in the context,
\* refine_response returns the hallucination_prevention catalog message; otherwise it
\* returns that text.
C19_RefineOrHallucinationRefusal ==
    Returned("refine_response")
        => LET refined == RemovePatternsFrom(args.response, 1)
               words == ToSet(split(lower(refined)))
               in_context == words \cap ToSet(split(lower(args.context)))
               discard == \/ refined = <<>>
                          \/ 10 * Cardinality(in_context) < 3 * Cardinality(words)
           IN  ret.text = IF discard THEN HallucinationMessage ELSE refined

\* the catalog messages as answer texts
RefusalTexts == {MessageChars(refusal_messages[t]) : t \in RefusalType}

\* C20: for a candidate answer that validation flags, the pipeline ends with a final
\* response that validation against the same context finds clean and needs_refusal
\* false, or with the hallucination_prevention message and needs_refusal true; the
\* flagged answer is not returned unchanged and no catalog message is returned with
\* needs_refusal false.
C20_FlaggedAnswerEndsCleanOrRefused ==
    (/\ Returned("run_hallucination_prevention_pipeline")
     /\ ret.validation.hallucination_detected)
        => /\ \/ /\ ~ret.needs_refusal
                 /\ ~validate_response_for_hallucinations(ret.refined_response,
                                                          args.context).hallucination_detected
              \/ /\ ret.needs_refusal
                 /\ ret.refined_response = HallucinationMessage
           /\ ret.refined_response # args.response
           /\ ret.refined_response \in RefusalTexts => ret.needs_refusal

\* C23: with the default min_context_length the gate does not refuse a context that
\* is not empty, of any length, for a query that shares one lower-cased word with it.
C23_AnyLengthContextPasses ==
    (/\ Returned("should_refuse_answer")
     /\ args.min_context_length = DefaultMinContextLength
     /\ Len(strip(args.context)) > 0
     /\ ~SharesNoWord(args.context, args.query))
        => ~ret.should_refuse

GateReasons ==
    { <<"no_context", "no_context_provided">>,
      <<"context_too_brief", "context_too_brief">>,
      <<"no_relevance", "no_relevant_content">> }

\* C29: a result of should_refuse_answer has refusal_type, message and reason set
\* when should_refuse is true and none of them set when it is false; the message is
\* the catalog message of refusal_type; and (reason, refusal_type) is one of the
\* three pairs of the gate.
C29_GateResultWellFormed ==
    Returned("should_refuse_answer")
        => IF ret.should_refuse
           THEN /\ ret.refusal_type \in RefusalType
                /\ ret.message = refusal_messages[ret.refusal_type]
                /\ <<ret.reason, ret.refusal_type>> \in GateReasons
           ELSE /\ ret.refusal_type = "None"
                /\ ret.message = "None"
                /\ ret.reason = "None"

\* a refusal for want of a common word, at a min length the context reaches
C29_Witness ==
    /\ Returned("should_refuse_answer")
    /\ ret.should_refuse
    /\ ret.reason = "no_relevance"
    /\ args.min_context_length > 0

\* the excerpt the running pass of the loop extracts from the current row
CurrentExcerpt == _find_relevant_sentences(CurrentChunk.content, args.query, LoopSentences)

\* the context with one more excerpt added whole
WithExcerpt(context, excerpt) ==
    IF context # <<>> THEN context \o <<"\n", "\n">> \o excerpt ELSE excerpt

\* C26: whenever the corpus loop is at the top of an iteration, remaining_tokens is
\* max_tokens - token_count and is not negative; a pass appends the whole excerpt or
\* nothing, appends it only if its word count is at most remaining_tokens, and on
\* an excerpt that is too large changes nothing and goes on to the next row.
C26_BudgetAccounting ==
    [][pc = "loop"
         => /\ remaining_tokens = args.max_tokens - result.token_count
            /\ remaining_tokens >= 0
            /\ ~LoopEnds
                 => LET words == Len(split(CurrentExcerpt))
                    IN  /\ result'.context \in
                              {result.context, WithExcerpt(result.context, CurrentExcerpt)}
                        /\ result'.context # result.context => words <= remaining_tokens
                        /\ words > remaining_tokens
                             => /\ result' = result
                                /\ remaining_tokens' = remaining_tokens
                                /\ pc' = "loop"
                                /\ idx' = idx + 1]_vars

\* the first row's excerpt was too large for the budget and the second row's was added
C26_Witness ==
    /\ Returned("retrieve_minimum_context")
    /\ Len(search_results) = 2
    /\ Len(split(_find_relevant_sentences(Chunk(search_results[1]).content, args.query,
                                          MinimumContextSentences))) > args.max_tokens
    /\ ret.sources = <<SourceRef(Chunk(search_results[2]))>>
    /\ ret.token_count > 0

\* C27: in every result the three retrieval functions return, token_count is the
\* whitespace word count of the returned context.
C27_TokenCountIsWordCount ==
    (\/ Returned("retrieve_minimum_context")
     \/ Returned("retrieve_for_book_scope")
     \/ Returned("retrieve_for_selected_text_only"))
        => ret.token_count = Len(split(ret.context))

\* a selected excerpt supplemented by a corpus excerpt
C27_Witness ==
    /\ Returned("retrieve_minimum_context")
    /\ args.selected_text # <<>>
    /\ Len(ret.sources) = 2
    /\ Len(split(ret.context)) > Len(split(args.selected_text))
    /\ Len(split(args.selected_text)) > 0

\* some hallucination pattern occurs in the text, letter case ignored
HasAnyPattern(text) ==
    \E k \in 1..Len(hallucination_patterns) : HasPhrase(text, hallucination_patterns[k])

\* the '.'-separated sentences of the answer that hold no pattern, stripped, in
\* their order, joined with ". "
SurvivingText(response) ==
    LET sentences == SplitOn(response, ".")
        kept == SelectSeq(sentences, LAMBDA s : ~HasAnyPattern(s))
    IN  Join([i \in 1..Len(kept) |-> strip(kept[i])], <<".", " ">>)

\* C28: the text refine_response returns holds no phrase of the pattern list; it is
\* a catalog message, or the sentences of the answer without a pattern, in their
\* original order.
C28_RefinedTextHasNoPattern ==
    Returned("refine_response")
        => /\ ~HasAnyPattern(ret.text)
           /\ \/ ret.text = SurvivingText(args.response)
              \/ ret.text \in RefusalTexts

\* an answer with a sentence that holds a pattern and one that is kept
C28_Witness ==
    /\ Returned("refine_response")
    /\ HasAnyPattern(args.response)
    /\ ret.text # <<>>
    /\ ret.text \notin RefusalTexts
    /\ ret.text = SurvivingText(args.response)

C30_ConnectionsClosedOnExit ==
    (op = PipelineOp /\ pc = "done")
        => \A r \in DOMAIN conns : conns[r] # "open"

\* the search query failed after both connections had been opened
C30_Witness ==
    /\ op = PipelineOp
    /\ pc = "done"
    /\ raised = "DatabaseError"
    /\ conns = [retriever |-> "closed", min_text_retriever |-> "closed"]

\* the endpoint has answered a request served outside demo mode
Answered == request # NoValue /\ http # NoValue /\ ~request.demo_mode

\* C21: an answer of the model that the endpoint returns as a successful answer was
\* given before, with the context sent to the model, to a method of the grounding
\* validator.
C21_AnswerValidatedBeforeSuccess ==
    (/\ Answered
     /\ http.status_code = 200
     /\ http.success)
        => \E i \in 1..Len(grounding_calls) :
              /\ grounding_calls[i].response = ret.answer
              /\ grounding_calls[i].context = model_calls[Len(model_calls)].context

\* C24: outside demo mode, when retrieval gave a sufficient context and the model
\* call returned an answer that is not empty, the endpoint answers with success
\* true, was_refused false and a text that begins with the model's answer.
C24_SufficientContextIsAnswered ==
    (/\ Answered
     /\ raised = "None"
     /\ ret # NoValue
     /\ ret.success
     /\ result.is_sufficient
     /\ Len(model_calls) = 1
     /\ ret.answer # <<>>)
        => /\ http.status_code = 200
           /\ http.success
           /\ ~http.metadata.was_refused
           /\ StartsWith(http.answer, ret.answer)

\* C25: a request whose mode is not a QueryMode value is answered with status 400,
\* and no connection is opened, no query executed and no model call made for it.
C25_InvalidModeIsBadRequest ==
    (/\ request # NoValue
     /\ request.mode \notin QueryMode)
        => /\ http # NoValue
           /\ http.status_code = 400
           /\ executes = <<>>
           /\ model_calls = <<>>
           /\ conns = [retriever |-> "None", min_text_retriever |-> "None"]

====
